---- MODULE Spec2Model ----
(***************************************************************************)
(* A model of the Three.js starter: the requestAnimationFrame loops of     *)
(* performance.js, animations.js and postprocessing.js, the frame-rate     *)
(* limiter, the dynamic resolution scaling and the frustum culling of      *)
(* performance.js, the renderer set-up of renderer.js, and the utilities   *)
(* of eventListeners.js, scene.js, loader.js, animations.js and camera.js. *)
(*                                                                         *)
(* Each component has its own specification over the shared variables; a   *)
(* component's actions leave the variables of the other components alone.  *)
(*   Spec               the frame loops and the animation-frame queue      *)
(*   SpecLimiter        limitFrameRate                                     *)
(*   SpecLimiterAnyFps  limitFrameRate, with an fps of 0 or below as well  *)
(*   SpecScaler         initRenderer and dynamicResolutionScaling          *)
(*   SpecCuller         manageResourceIntensiveObjects                     *)
(*   SpecDebounce       debounceWindowResize                               *)
(*   SpecScene          initScene, addObjectToScene,                       *)
(*                      removeObjectFromScene, clearScene                  *)
(*   SpecLoader         loadGLTFModel, loadOBJModel, loadFBXModel          *)
(*   SpecTween          animateObjectWithKeyframes and followPath          *)
(*   SpecRig            initCameraRig                                      *)
(***************************************************************************)
EXTENDS Integers, Sequences, FiniteSets, TLC

VARIABLES
    \* ---- frame loops (performance.js, animations.js, postprocessing.js)
    started,       \* the loops whose start function has been called
    rafQueue,      \* callbacks registered by requestAnimationFrame for the next frame
    running,       \* callbacks of the frame in progress that have not run yet
    out,           \* per loop: what its callback did in the current frame
    threwBefore,   \* loops whose per-frame function threw in an earlier frame
    stopBefore,    \* loops whose per-frame function asked to stop in an earlier frame
    startOrder,    \* the started loops, in the order their start functions were called
    frame,         \* the callbacks the current frame was begun with, in order
    ranOrder,      \* the loops whose callbacks have run in the current frame, in order
    pendingAtWork, \* per loop: its successor was registered when its work ran
    errors,        \* per loop: what became of the exception its work threw
    \* ---- limitFrameRate (performance.js)
    limStarted,    \* limitFrameRate has been called
    limFailed,     \* the call of limitFrameRate threw
    fpsInterval,   \* its const fpsInterval, in ms
    lastTime,      \* its let lastTime, in ms
    ticks,         \* the calls of its loop so far: timestamp, delta, whether
                   \* renderFunction was called and, if so, the lastTime it could see
    \* ---- initRenderer and dynamicResolutionScaling (renderer.js, performance.js)
    devicePixelRatio,  \* window.devicePixelRatio, in tenths
    rendererCreated,   \* initRenderer has returned the renderer
    pixelRatio,        \* the renderer's pixel ratio, in tenths
    scalerStarted,     \* dynamicResolutionScaling has been called
    basePixelRatio,    \* its const basePixelRatio, in tenths
    samples,           \* the calls of adjustResolution so far: the fps read, whether
                       \* setPixelRatio was called, the pixel ratio before and after
    \* ---- manageResourceIntensiveObjects (performance.js)
    cameraPos,     \* where the camera is
    objPos,        \* where each object is
    visible,       \* each object's visible flag
    objects,       \* the managed list passed to manageResourceIntensiveObjects
    sceneChildren, \* the objects that are children of the scene
    frustum,       \* the reused THREE.Frustum: the positions inside it
    fresh,         \* update has run and neither camera nor objects moved since
    again,         \* update has run twice in a row with no move in between
    geometry,      \* each object's geometry: attached or disposed
    material,      \* each object's material: attached or disposed
    \* ---- debounceWindowResize (eventListeners.js)
    registered,    \* debounceWindowResize has added its resize listener
    delay,         \* its delay, in ms
    now,           \* the time, in ms
    lastResize,    \* the time of the latest resize event, if any
    resizeTimeout, \* its let resizeTimeout: the handle of the latest timer, if any
    timers,        \* the timers pending, each known by the time it is due
    callsSince,    \* how often callback was called since the latest resize event
    lastCall,      \* the latest call of callback, if any: when, and how long after
                   \* the latest resize event
    missedBurst,   \* a burst of resize events ended and callback was not called
    \* ---- initScene, addObjectToScene, removeObjectFromScene, clearScene (scene.js)
    sceneCreated,  \* initScene has returned the scene
    options,       \* the options initScene was called with; <<>> is a property not given
    background,    \* scene.background
    environment,   \* scene.environment
    children,      \* scene.children: the kind of each child, in order
    sceneCall,     \* the latest call: which function, and whether it returned or threw
    \* ---- loadGLTFModel, loadOBJModel, loadFBXModel (loader.js)
    loads,         \* per function: the loader's outcome, the state of the promise
                   \* returned and the callbacks called, in order
    \* ---- animateObjectWithKeyframes (animations.js)
    kfCount,       \* keyframes.length; 0 before the call
    kfDuration,    \* its duration argument, in ms
    kfOnComplete,  \* whether an onComplete callback was given
    kfChained,     \* per tween: the tweens started when it completes
    kfActive,      \* the tweens playing, each known by the index of its keyframe
    kfPlayed,      \* the tweens that have completed, in order
    kfElapsed,     \* the playing time of the tweens that have completed, in ms
    kfCompleteCalls, \* how often onComplete was called
    \* ---- followPath (animations.js)
    fpCalled,      \* followPath has been called
    fpLength,      \* path.length
    fpDuration,    \* its duration argument, in ms
    currentIndex,  \* its let currentIndex
    fpActive,      \* the tweens playing, each known by the path index it moves to
    fpReads,       \* the path indexes read, in order
    fpDurations,   \* the durations of the tweens started, in order
    fpVisited,     \* the path indexes the object has reached, in order
    \* ---- initCameraRig (camera.js)
    rigCreated,    \* initCameraRig has returned the rig
    perspectiveCamera,  \* the rig's field
    orthographicCamera, \* the rig's field
    currentCamera, \* its let currentCamera
    switches       \* the switch functions called so far, in order

loopVars ==
    <<started, rafQueue, running, out, threwBefore, stopBefore, startOrder, frame,
      ranOrder, pendingAtWork, errors>>
limVars == <<limStarted, limFailed, fpsInterval, lastTime, ticks>>
scalerVars ==
    <<devicePixelRatio, rendererCreated, pixelRatio, scalerStarted, basePixelRatio, samples>>
cullVars ==
    <<cameraPos, objPos, visible, objects, sceneChildren, frustum, fresh, again,
      geometry, material>>
debounceVars ==
    <<registered, delay, now, lastResize, resizeTimeout, timers, callsSince, lastCall,
      missedBurst>>
sceneVars == <<sceneCreated, options, background, environment, children, sceneCall>>
loaderVars == <<loads>>
keyframeVars ==
    <<kfCount, kfDuration, kfOnComplete, kfChained, kfActive, kfPlayed, kfElapsed,
      kfCompleteCalls>>
pathVars ==
    <<fpCalled, fpLength, fpDuration, currentIndex, fpActive, fpReads, fpDurations,
      fpVisited>>
tweenVars == <<keyframeVars, pathVars>>
rigVars ==
    <<rigCreated, perspectiveCamera, orthographicCamera, currentCamera, switches>>
utilVars == <<debounceVars, sceneVars, loaderVars, tweenVars, rigVars>>
frameVars == <<loopVars, limVars, scalerVars, cullVars>>
vars == <<frameVars, utilVars>>

Range(s) == {s[i] : i \in DOMAIN s}

(***************************************************************************)
(* Frame loops                                                             *)
(***************************************************************************)

\* The loops whose body calls requestAnimationFrame(loop) as its first statement.
RafFirstLoops ==
    {"optimizeRenderLoop", "limitFrameRate", "dynamicResolutionScaling",
     "manageResourceIntensiveObjects"}

\* The loops whose body calls requestAnimationFrame as its last statement.
RafLastLoops == {"animate", "renderWithComposer"}

Loops == RafFirstLoops \cup RafLastLoops

\* How many loops are started in one run.
MaxLoops == 2

\* What happens while the per-frame function of a loop runs once: it returns, it
\* throws, or it returns after the application has asked for the loop to stop. No
\* loop function returns a handle or the id of its requestAnimationFrame call and
\* none reads a running flag, so the request is only recorded here.
Outcomes == {"ok", "throw", "stop"}

\* What a callback did in a frame: "none" (it has not run), "skip" (the limiter
\* did not call renderFunction) or the outcome of the per-frame function.
NoRun == "none"
Skipped == "skip"

\* Mutant: every loop registers its successor after the per-frame work.
RequestsNextFrameAfterWork(l, o) == o # "throw"

\* Mutant: a loop that honours a stop request.
RequestsNextFrameUnlessStopped(l, o) ==
    /\ o # "stop"
    /\ (l \in RafLastLoops => o # "throw")

\* Whether the body of loop l registers its successor when the per-frame work
\* ends with o. A loop that registers first has done so before the work runs; a
\* loop that registers last does so only when the work returns.
RequestsNextFrame(l, o) ==
    IF l \in RafFirstLoops THEN TRUE ELSE o # "throw"

\* Mutant: every loop registers its successor after the per-frame work.
RegistersAfterWork(l) == FALSE

\* Whether the successor of loop l is already registered while its per-frame
\* work runs.
RegistersBeforeWork(l) == l \in RafFirstLoops

\* Mutant: the loop body wraps the per-frame work in try/catch.
CatchesAll(l) == TRUE

\* Whether the body of loop l catches what its per-frame work throws: no loop
\* body has a try statement.
Catches(l) == FALSE

\* Mutant: the latest registration is served first.
RegisterInFront(q, l) == <<l>> \o q

\* Mutant: the callback is registered twice.
RegisterTwice(q, l) == Append(Append(q, l), l)

\* requestAnimationFrame(loop): the callback joins the browser's list for the next
\* frame, behind the ones registered before.
Register(q, l) == Append(q, l)

\* The body of loop l, run once with the per-frame work ending with r.
LoopBody(l, r) ==
    /\ out' = [out EXCEPT ![l] = r]
    /\ rafQueue' = IF RequestsNextFrame(l, r) THEN Register(rafQueue, l) ELSE rafQueue
    /\ pendingAtWork' =
           [pendingAtWork EXCEPT ![l] = r \in Outcomes /\ RegistersBeforeWork(l)]
    /\ errors' = [errors EXCEPT ![l] =
           IF r # "throw" THEN "none"
           ELSE IF Catches(l) THEN "caught" ELSE "uncaught"]

\* The application calls a loop's start function, between two frames.
\* optimizeRenderLoop, dynamicResolutionScaling, manageResourceIntensiveObjects
\* and renderWithComposer run the body once synchronously; limitFrameRate calls
\* loop(0), whose delta of 0 does not exceed the interval, so renderFunction is
\* skipped; animate only registers the first callback.
StartLoop(l, o) ==
    /\ l \notin started
    /\ Cardinality(started) < MaxLoops
    /\ running = <<>>
    /\ started' = started \cup {l}
    /\ startOrder' = Append(startOrder, l)
    /\ IF l = "animate"
       THEN /\ rafQueue' = Register(rafQueue, l)
            /\ UNCHANGED <<out, pendingAtWork, errors>>
       ELSE LoopBody(l, IF l = "limitFrameRate" THEN Skipped ELSE o)
    /\ UNCHANGED <<running, threwBefore, stopBefore, frame, ranOrder>>
    /\ UNCHANGED <<limVars, scalerVars, cullVars, utilVars>>

\* The browser starts a frame: the callbacks registered so far are the ones this
\* frame runs, in registration order; those registered from now on wait for the
\* next frame.
BeginFrame ==
    /\ running = <<>>
    /\ rafQueue # <<>>
    /\ running' = rafQueue
    /\ rafQueue' = <<>>
    /\ threwBefore' = threwBefore \cup {l \in Loops : out[l] = "throw"}
    /\ stopBefore' = stopBefore \cup {l \in Loops : out[l] = "stop"}
    /\ out' = [l \in Loops |-> NoRun]
    /\ frame' = rafQueue
    /\ ranOrder' = <<>>
    /\ pendingAtWork' = [l \in Loops |-> FALSE]
    /\ errors' = [l \in Loops |-> "none"]
    /\ UNCHANGED <<started, startOrder>>
    /\ UNCHANGED <<limVars, scalerVars, cullVars, utilVars>>

\* The browser runs the next callback of the frame. An exception that leaves the
\* callback is reported by the browser and the frame goes on with the next
\* callback. accept is the limiter's test of the tick's timestamp.
RunCallback(o, accept) ==
    /\ running # <<>>
    /\ LET l == Head(running) IN
       LoopBody(l, IF l = "limitFrameRate" /\ ~accept THEN Skipped ELSE o)
    /\ running' = Tail(running)
    /\ ranOrder' = Append(ranOrder, Head(running))
    /\ UNCHANGED <<started, threwBefore, stopBefore, startOrder, frame>>
    /\ UNCHANGED <<limVars, scalerVars, cullVars, utilVars>>

InitLoops ==
    /\ started = {}
    /\ rafQueue = <<>>
    /\ running = <<>>
    /\ out = [l \in Loops |-> NoRun]
    /\ threwBefore = {}
    /\ stopBefore = {}
    /\ startOrder = <<>>
    /\ frame = <<>>
    /\ ranOrder = <<>>
    /\ pendingAtWork = [l \in Loops |-> FALSE]
    /\ errors = [l \in Loops |-> "none"]

(***************************************************************************)
(* limitFrameRate                                                          *)
(***************************************************************************)

\* The fps arguments tried, in tenths of a frame per second: 62.5, 125 and 250.
FpsTenths == {625, 1250, 2500}

\* The latest timestamp the browser hands to a callback, in ms.
MaxTime == 24

\* How many times the limiter's loop runs, the call loop(0) included.
MaxTicks == 4

\* The fps arguments that make no sense, in tenths: -125 and 0.
InvalidFpsTenths == {0 - 1250, 0}

\* 1000 / 0 in JavaScript. No delta exceeds the latest timestamp, so every
\* interval above it behaves as Infinity does.
Infinity == MaxTime + 1

Abs(a) == IF a < 0 THEN 0 - a ELSE a

\* const fpsInterval = 1000 / fps, for an fps given in tenths. The values tried
\* divide 10000, so the quotient is exact: 16, 8 and 4 ms, and -8 ms for -125.
FpsInterval(fpsTenths) ==
    IF fpsTenths = 0 THEN Infinity
    ELSE IF fpsTenths < 0 THEN 0 - (10000 \div Abs(fpsTenths))
    ELSE 10000 \div fpsTenths

\* a % b in JavaScript: the sign is the one of a, the size the one of the
\* remainder of the absolute values.
JsRemainder(a, b) ==
    IF a < 0 THEN 0 - (Abs(a) % Abs(b)) ELSE a % Abs(b)

\* Mutant: the test of the specification, which accepts a delta equal to the interval.
AcceptsFromInterval(delta, interval) == delta >= interval

\* if (delta > fpsInterval)
Accepts(delta, interval) == delta > interval

\* Mutant: the remainder alone.
RemainderOnly(time, delta, interval) == delta % interval

\* Mutant: the plain update, which drifts.
PlainUpdate(time, delta, interval) == time

\* lastTime = time - (delta % fpsInterval)
NextLastTime(time, delta, interval) == time - JsRemainder(delta, interval)

\* The lastTime renderFunction can see when it is called: the assignment comes
\* first, so it is the new one.
SeenByRender(old, new) == new

\* function loop(time), with the interval given (the start sets it in the same step).
LimiterLoop(time, interval) ==
    LET delta == time - lastTime
        accepted == Accepts(delta, interval)
        new == IF accepted THEN NextLastTime(time, delta, interval) ELSE lastTime
    IN  /\ lastTime' = new
        /\ ticks' = Append(ticks,
               [t |-> time, delta |-> delta, ran |-> accepted,
                seen |-> IF accepted THEN <<SeenByRender(lastTime, new)>> ELSE <<>>])

\* Mutant: an fps that gives no positive finite interval is rejected.
limitFrameRateValidated(fpsTenths) ==
    /\ ~limStarted
    /\ limStarted' = TRUE
    /\ fpsInterval' = FpsInterval(fpsTenths)
    /\ IF fpsTenths \in InvalidFpsTenths
       THEN limFailed' = TRUE /\ UNCHANGED <<lastTime, ticks>>
       ELSE limFailed' = FALSE /\ LimiterLoop(0, FpsInterval(fpsTenths))
    /\ UNCHANGED <<loopVars, scalerVars, cullVars, utilVars>>

\* limitFrameRate(renderFunction, fps): lastTime is 0, the interval is computed and
\* loop(0) is called. Nothing is tested and nothing is thrown.
limitFrameRate(fpsTenths) ==
    /\ ~limStarted
    /\ limStarted' = TRUE
    /\ limFailed' = FALSE
    /\ fpsInterval' = FpsInterval(fpsTenths)
    /\ LimiterLoop(0, FpsInterval(fpsTenths))
    /\ UNCHANGED <<loopVars, scalerVars, cullVars, utilVars>>

\* The browser calls loop with the frame's timestamp, which never goes back.
LimiterTick(time) ==
    /\ limStarted
    /\ ticks # <<>>
    /\ Len(ticks) < MaxTicks
    /\ time >= ticks[Len(ticks)].t
    /\ LimiterLoop(time, fpsInterval)
    /\ UNCHANGED <<limStarted, limFailed, fpsInterval>>
    /\ UNCHANGED <<loopVars, scalerVars, cullVars, utilVars>>

InitLimiter ==
    /\ limStarted = FALSE
    /\ limFailed = FALSE
    /\ fpsInterval = 0
    /\ lastTime = 0
    /\ ticks = <<>>

NextLimiter ==
    \/ \E f \in FpsTenths : limitFrameRate(f)
    \/ \E t \in 0..MaxTime : LimiterTick(t)

\* The limiter called with any fps, the invalid ones included.
NextLimiterAnyFps ==
    \/ \E f \in FpsTenths \cup InvalidFpsTenths : limitFrameRate(f)
    \/ \E t \in 0..MaxTime : LimiterTick(t)

(***************************************************************************)
(* initRenderer and dynamicResolutionScaling                               *)
(***************************************************************************)

\* Pixel ratios are in tenths: 5 is 0.5 and 20 is 2.
MinPixelRatio == 5
MaxPixelRatio == 20
ScaleStep == 5
DefaultPixelRatio == 10
LowFps == 30
HighFps == 50

\* The values of window.devicePixelRatio tried, in tenths: 0.5 (a zoomed-out page)
\* to 3 (a phone screen). A browser that has no such property is not tried.
DevicePixelRatios == {5, 10, 15, 20, 25, 30}

\* The values stats.getFPS() returns.
FpsSamples == {20, 30, 40, 50, 60}

\* How many times adjustResolution runs.
MaxSamples == 4

Max(a, b) == IF a >= b THEN a ELSE b
Min(a, b) == IF a <= b THEN a ELSE b

\* initRenderer: renderer.setPixelRatio(window.devicePixelRatio).
initRenderer ==
    /\ ~rendererCreated
    /\ rendererCreated' = TRUE
    /\ pixelRatio' = devicePixelRatio
    /\ UNCHANGED <<devicePixelRatio, scalerStarted, basePixelRatio, samples>>
    /\ UNCHANGED <<loopVars, limVars, cullVars, utilVars>>

\* const basePixelRatio = window.devicePixelRatio || 1
BasePixelRatio(dpr) == IF dpr = 0 THEN DefaultPixelRatio ELSE dpr

\* One call of adjustResolution, recorded.
Sampled(fps, wrote, value) ==
    /\ pixelRatio' = value
    /\ samples' = Append(samples,
           [fps |-> fps, wrote |-> wrote, before |-> pixelRatio, after |-> value])

\* Mutant: the steps accumulate on the pixel ratio currently applied.
adjustResolutionFromCurrent(base, fps) ==
    IF fps < LowFps
    THEN Sampled(fps, TRUE, Max(MinPixelRatio, pixelRatio - ScaleStep))
    ELSE IF fps > HighFps
         THEN Sampled(fps, TRUE, Min(MaxPixelRatio, pixelRatio + ScaleStep))
         ELSE Sampled(fps, FALSE, pixelRatio)

\* Mutant: the thresholds themselves are out of the band.
adjustResolutionInclusive(base, fps) ==
    IF fps <= LowFps
    THEN Sampled(fps, TRUE, Max(MinPixelRatio, base - ScaleStep))
    ELSE IF fps >= HighFps
         THEN Sampled(fps, TRUE, Min(MaxPixelRatio, base + ScaleStep))
         ELSE Sampled(fps, FALSE, pixelRatio)

\* function adjustResolution(), with the fps that stats.getFPS() returned.
adjustResolution(base, fps) ==
    IF fps < LowFps
    THEN Sampled(fps, TRUE, Max(MinPixelRatio, base - ScaleStep))
    ELSE IF fps > HighFps
         THEN Sampled(fps, TRUE, Min(MaxPixelRatio, base + ScaleStep))
         ELSE Sampled(fps, FALSE, pixelRatio)

\* dynamicResolutionScaling(renderer, stats): the base is read and loop() is called,
\* which adjusts once.
dynamicResolutionScaling(fps) ==
    /\ rendererCreated
    /\ ~scalerStarted
    /\ scalerStarted' = TRUE
    /\ basePixelRatio' = BasePixelRatio(devicePixelRatio)
    /\ adjustResolution(BasePixelRatio(devicePixelRatio), fps)
    /\ UNCHANGED <<devicePixelRatio, rendererCreated>>
    /\ UNCHANGED <<loopVars, limVars, cullVars, utilVars>>

\* The browser calls the scaler's loop.
ScalerTick(fps) ==
    /\ scalerStarted
    /\ Len(samples) < MaxSamples
    /\ adjustResolution(basePixelRatio, fps)
    /\ UNCHANGED <<devicePixelRatio, rendererCreated, scalerStarted, basePixelRatio>>
    /\ UNCHANGED <<loopVars, limVars, cullVars, utilVars>>

InitScaler ==
    /\ devicePixelRatio \in DevicePixelRatios
    /\ rendererCreated = FALSE
    /\ pixelRatio = DefaultPixelRatio
    /\ scalerStarted = FALSE
    /\ basePixelRatio = DefaultPixelRatio
    /\ samples = <<>>

ScalerIdle ==
    /\ devicePixelRatio = DefaultPixelRatio
    /\ rendererCreated = FALSE
    /\ pixelRatio = DefaultPixelRatio
    /\ scalerStarted = FALSE
    /\ basePixelRatio = DefaultPixelRatio
    /\ samples = <<>>

NextScaler ==
    \/ initRenderer
    \/ \E fps \in FpsSamples : dynamicResolutionScaling(fps)
    \/ \E fps \in FpsSamples : ScalerTick(fps)

(***************************************************************************)
(* manageResourceIntensiveObjects                                          *)
(***************************************************************************)

\* The world is a line of positions 0..MaxPos; the camera looks up the line.
MaxPos == 3

\* How far the camera sees.
ViewDepth == 2

\* How many objects there are; all of them have a geometry.
NumObjects == 2

World == 0..MaxPos
AllObjects == 1..NumObjects

\* The lists of distinct objects that an application may pass.
ManagedLists ==
    {s \in UNION {[1..n -> AllObjects] : n \in 1..NumObjects} :
        \A i, j \in DOMAIN s : i # j => s[i] # s[j]}

\* frustum.setFromProjectionMatrix(projectionMatrix * matrixWorldInverse): the
\* positions the camera at c sees.
FrustumOf(c) == {p \in World : p >= c /\ p <= c + ViewDepth}

\* frustum.intersectsObject(object)
IntersectsObject(f, o) == objPos[o] \in f

\* Mutant: objects out of view are hidden and never shown again.
HideOnly(f, o) == visible[o] /\ IntersectsObject(f, o)

\* The flag the forEach body gives object o.
NewVisible(f, o) == IntersectsObject(f, o)

\* Mutant: the objects are tested before the frustum is recomputed.
StaleFrustum(old, new) == old

\* The frustum the forEach tests the objects against: setFromProjectionMatrix has
\* run before, so it is the one of this update.
FrustumUsed(old, new) == new

\* Mutant: an update that also frees the geometry of the objects it hides.
updateDisposing ==
    /\ objects # <<>>
    /\ frustum' = FrustumOf(cameraPos)
    /\ visible' = [o \in AllObjects |->
           IF o \in Range(objects)
           THEN NewVisible(FrustumUsed(frustum, FrustumOf(cameraPos)), o)
           ELSE visible[o]]
    /\ geometry' = [o \in AllObjects |->
           IF o \in Range(objects) /\ ~visible'[o] THEN "disposed" ELSE geometry[o]]
    /\ fresh' = TRUE
    /\ again' = fresh
    /\ UNCHANGED <<cameraPos, objPos, objects, sceneChildren, material>>
    /\ UNCHANGED <<loopVars, limVars, scalerVars, utilVars>>

\* function update(): the frustum is recomputed from the camera and every object
\* of the list gets its flag.
update ==
    /\ objects # <<>>
    /\ frustum' = FrustumOf(cameraPos)
    /\ visible' = [o \in AllObjects |->
           IF o \in Range(objects)
           THEN NewVisible(FrustumUsed(frustum, FrustumOf(cameraPos)), o)
           ELSE visible[o]]
    /\ fresh' = TRUE
    /\ again' = fresh
    /\ UNCHANGED <<cameraPos, objPos, objects, sceneChildren, geometry, material>>
    /\ UNCHANGED <<loopVars, limVars, scalerVars, utilVars>>

\* manageResourceIntensiveObjects(camera, objects): loop() is called, which
\* updates once.
manageResourceIntensiveObjects(list) ==
    /\ objects = <<>>
    /\ objects' = list
    /\ frustum' = FrustumOf(cameraPos)
    /\ visible' = [o \in AllObjects |->
           IF o \in Range(list)
           THEN NewVisible(FrustumUsed(frustum, FrustumOf(cameraPos)), o)
           ELSE visible[o]]
    /\ fresh' = TRUE
    /\ again' = FALSE
    /\ UNCHANGED <<cameraPos, objPos, sceneChildren, geometry, material>>
    /\ UNCHANGED <<loopVars, limVars, scalerVars, utilVars>>

\* The application moves the camera between two frames (updateCameraPosition).
MoveCamera(c) ==
    /\ c # cameraPos
    /\ cameraPos' = c
    /\ fresh' = FALSE
    /\ again' = FALSE
    /\ UNCHANGED <<objPos, visible, objects, sceneChildren, frustum, geometry, material>>
    /\ UNCHANGED <<loopVars, limVars, scalerVars, utilVars>>

\* The application moves an object between two frames (oscillateObject).
MoveObject(o, p) ==
    /\ p # objPos[o]
    /\ objPos' = [objPos EXCEPT ![o] = p]
    /\ fresh' = FALSE
    /\ again' = FALSE
    /\ UNCHANGED <<cameraPos, visible, objects, sceneChildren, frustum, geometry, material>>
    /\ UNCHANGED <<loopVars, limVars, scalerVars, utilVars>>

InitCuller ==
    /\ cameraPos \in World
    /\ objPos \in [AllObjects -> {0, MaxPos}]
    /\ visible \in [AllObjects -> BOOLEAN]
    /\ objects = <<>>
    /\ sceneChildren = AllObjects
    /\ frustum = {}
    /\ fresh = FALSE
    /\ again = FALSE
    /\ geometry = [o \in AllObjects |-> "attached"]
    /\ material = [o \in AllObjects |-> "attached"]

CullerIdle ==
    /\ cameraPos = 0
    /\ objPos = [o \in AllObjects |-> 0]
    /\ visible = [o \in AllObjects |-> TRUE]
    /\ objects = <<>>
    /\ sceneChildren = AllObjects
    /\ frustum = {}
    /\ fresh = FALSE
    /\ again = FALSE
    /\ geometry = [o \in AllObjects |-> "attached"]
    /\ material = [o \in AllObjects |-> "attached"]

NextCuller ==
    \/ \E list \in ManagedLists : manageResourceIntensiveObjects(list)
    \/ update
    \/ \E c \in World : MoveCamera(c)
    \/ \E o \in AllObjects, p \in World : MoveObject(o, p)

(***************************************************************************)
(* debounceWindowResize                                                    *)
(***************************************************************************)

\* The longest delay tried, in ms.
MaxDelay == 2

\* The latest time, in ms.
MaxNow == 5

\* Mutant: the timer of the event before is left pending.
KeepTimeout(ts, handle) == ts

\* clearTimeout(resizeTimeout): the timer the handle names is no longer pending;
\* an undefined handle or one whose timer has fired clears nothing.
ClearTimeout(ts, handle) == ts \ Range(handle)

\* debounceWindowResize(callback, delay): the resize listener is added.
debounceWindowResize(d) ==
    /\ ~registered
    /\ registered' = TRUE
    /\ delay' = d
    /\ UNCHANGED <<now, lastResize, resizeTimeout, timers, callsSince, lastCall,
                   missedBurst>>
    /\ UNCHANGED <<frameVars, sceneVars, loaderVars, tweenVars, rigVars>>

\* The listener, on a resize event: the pending timer is cleared and a new one is
\* set. The event ends the burst before it when it comes delay ms or more after
\* the latest event.
Resize ==
    /\ registered
    /\ timers' = ClearTimeout(timers, resizeTimeout) \cup {now + delay}
    /\ resizeTimeout' = <<now + delay>>
    /\ lastResize' = <<now>>
    /\ callsSince' = 0
    /\ missedBurst' =
           (\/ missedBurst
            \/ \E t \in Range(lastResize) : now - t >= delay /\ callsSince = 0)
    /\ UNCHANGED <<registered, delay, now, lastCall>>
    /\ UNCHANGED <<frameVars, sceneVars, loaderVars, tweenVars, rigVars>>

\* A pending timer fires, at the time it is due or later, and calls callback.
TimerFires(due) ==
    /\ due \in timers
    /\ now >= due
    /\ timers' = timers \ {due}
    /\ callsSince' = callsSince + 1
    /\ lastCall' = <<[at |-> now, since |-> now - lastResize[1]]>>
    /\ UNCHANGED <<registered, delay, now, lastResize, resizeTimeout, missedBurst>>
    /\ UNCHANGED <<frameVars, sceneVars, loaderVars, tweenVars, rigVars>>

\* A millisecond passes.
Advance ==
    /\ now < MaxNow
    /\ now' = now + 1
    /\ UNCHANGED <<registered, delay, lastResize, resizeTimeout, timers, callsSince,
                   lastCall, missedBurst>>
    /\ UNCHANGED <<frameVars, sceneVars, loaderVars, tweenVars, rigVars>>

DebounceIdle ==
    /\ registered = FALSE
    /\ delay = 0
    /\ now = 0
    /\ lastResize = <<>>
    /\ resizeTimeout = <<>>
    /\ timers = {}
    /\ callsSince = 0
    /\ lastCall = <<>>
    /\ missedBurst = FALSE

NextDebounce ==
    \/ \E d \in 1..MaxDelay : debounceWindowResize(d)
    \/ Resize
    \/ \E due \in 0..(MaxNow + MaxDelay) : TimerFires(due)
    \/ Advance

(***************************************************************************)
(* addObjectToScene, removeObjectFromScene, clearScene                     *)
(***************************************************************************)

\* How many children the scene has at most.
MaxChildren == 3

\* The kinds of objects added to a scene: a mesh with one material, a mesh with
\* an array of materials, a light and a group.
Kinds == {"mesh", "meshWithMaterials", "light", "group"}

\* Whether an object of the kind has a geometry property.
HasGeometry(k) == k \in {"mesh", "meshWithMaterials"}

\* object.geometry.dispose() and the disposal of the material, which is guarded
\* by if (object.material): the call throws for an object without geometry.
Dispose(k) == IF HasGeometry(k) THEN "returned" ELSE "threw"

\* The sequence s without its element i.
RemoveAt(s, i) == [j \in 1..(Len(s) - 1) |-> IF j < i THEN s[j] ELSE s[j + 1]]

\* The while loop of clearScene on the children s: the first child is removed and
\* disposed of until none is left or removeObjectFromScene throws.
RECURSIVE ClearFrom(_)
ClearFrom(s) ==
    IF Len(s) = 0 THEN [children |-> <<>>, result |-> "returned"]
    ELSE IF Dispose(Head(s)) = "threw"
         THEN [children |-> Tail(s), result |-> "threw"]
         ELSE ClearFrom(Tail(s))

\* The hex colours tried: black and white.
Colors == {0, 16777215}

\* The options objects tried: each property is given, as <<value>>, or not.
SceneOptions ==
    [backgroundColor : {<<>>} \cup {<<c>> : c \in Colors},
     backgroundTexture : {<<>>, <<"texture">>},
     environmentMap : {<<>>, <<"cubeTexture">>}]

NoBackground == [kind |-> "none", color |-> 0]

\* The test if (options.backgroundColor): a number passes unless it is 0.
ColorGiven(opts) == opts.backgroundColor # <<>> /\ opts.backgroundColor[1] # 0

\* The if / else if chain of initScene: what scene.background becomes.
BackgroundOf(opts) ==
    IF ColorGiven(opts) THEN [kind |-> "color", color |-> opts.backgroundColor[1]]
    ELSE IF opts.backgroundTexture # <<>> THEN [kind |-> "texture", color |-> 0]
    ELSE NoBackground

\* The last branch of the chain: what scene.environment becomes.
EnvironmentOf(opts) ==
    IF ~ColorGiven(opts) /\ opts.backgroundTexture = <<>> /\ opts.environmentMap # <<>>
    THEN "cubeTexture" ELSE "none"

\* initScene(options)
initScene(opts) ==
    /\ ~sceneCreated
    /\ sceneCreated' = TRUE
    /\ options' = opts
    /\ background' = BackgroundOf(opts)
    /\ environment' = EnvironmentOf(opts)
    /\ sceneCall' = [function |-> "initScene", result |-> "returned"]
    /\ UNCHANGED children
    /\ UNCHANGED <<frameVars, debounceVars, loaderVars, tweenVars, rigVars>>

\* addObjectToScene(scene, object)
addObjectToScene(k) ==
    /\ sceneCreated
    /\ Len(children) < MaxChildren
    /\ children' = Append(children, k)
    /\ sceneCall' = [function |-> "addObjectToScene", result |-> "returned"]
    /\ UNCHANGED <<sceneCreated, options, background, environment>>
    /\ UNCHANGED <<frameVars, debounceVars, loaderVars, tweenVars, rigVars>>

\* removeObjectFromScene(scene, object), for the child at index i: scene.remove
\* comes first, the disposal after it.
removeObjectFromScene(i) ==
    /\ sceneCreated
    /\ i \in DOMAIN children
    /\ children' = RemoveAt(children, i)
    /\ sceneCall' = [function |-> "removeObjectFromScene", result |-> Dispose(children[i])]
    /\ UNCHANGED <<sceneCreated, options, background, environment>>
    /\ UNCHANGED <<frameVars, debounceVars, loaderVars, tweenVars, rigVars>>

\* clearScene(scene)
clearScene ==
    /\ sceneCreated
    /\ children' = ClearFrom(children).children
    /\ sceneCall' = [function |-> "clearScene", result |-> ClearFrom(children).result]
    /\ UNCHANGED <<sceneCreated, options, background, environment>>
    /\ UNCHANGED <<frameVars, debounceVars, loaderVars, tweenVars, rigVars>>

SceneIdle ==
    /\ sceneCreated = FALSE
    /\ options = [backgroundColor |-> <<>>, backgroundTexture |-> <<>>,
                  environmentMap |-> <<>>]
    /\ background = NoBackground
    /\ environment = "none"
    /\ children = <<>>
    /\ sceneCall = [function |-> "none", result |-> "returned"]

NextScene ==
    \/ \E opts \in SceneOptions : initScene(opts)
    \/ \E k \in Kinds : addObjectToScene(k)
    \/ \E i \in 1..MaxChildren : removeObjectFromScene(i)
    \/ clearScene

(***************************************************************************)
(* loadGLTFModel, loadOBJModel, loadFBXModel                               *)
(***************************************************************************)

LoadFunctions == {"loadGLTFModel", "loadOBJModel", "loadFBXModel"}

\* What a supplied callback does when it is called: it returns or it throws.
CallbackBehaviours == {"returns", "throws"}

\* The error callback handed to loader.load: onError(error), then reject(error).
\* A load is the loader's outcome, the promise and the callbacks called so far.
OnLoaderError(load, onError) ==
    [load EXCEPT
        !.calls = Append(@, "onError"),
        !.promise = IF onError = "returns" THEN "rejected" ELSE @]

\* The success callback handed to loader.load: onLoad(model), then
\* resolve(model). When onLoad throws, resolve is not reached; the exception goes
\* to the loader that called, which lets it pass or hands it to the error
\* callback (rerouted).
OnLoaderSuccess(load, onLoad, rerouted, onError) ==
    LET called == [load EXCEPT !.calls = Append(@, "onLoad")] IN
    IF onLoad = "returns" THEN [called EXCEPT !.promise = "resolved"]
    ELSE IF rerouted THEN OnLoaderError(called, onError)
    ELSE called

\* loadGLTFModel, loadOBJModel or loadFBXModel is called: the promise is created
\* and loader.load starts.
LoadModel(f) ==
    /\ loads[f].outcome = "idle"
    /\ loads' = [loads EXCEPT ![f] =
           [outcome |-> "loading", promise |-> "pending", calls |-> <<>>]]
    /\ UNCHANGED <<frameVars, debounceVars, sceneVars, tweenVars, rigVars>>

\* The loader has the model and calls the success callback.
LoaderSucceeds(f, onLoad, rerouted, onError) ==
    /\ loads[f].outcome = "loading"
    /\ loads' = [loads EXCEPT ![f] =
           OnLoaderSuccess([loads[f] EXCEPT !.outcome = "success"],
                           onLoad, rerouted, onError)]
    /\ UNCHANGED <<frameVars, debounceVars, sceneVars, tweenVars, rigVars>>

\* The loader fails and calls the error callback.
LoaderFails(f, onError) ==
    /\ loads[f].outcome = "loading"
    /\ loads' = [loads EXCEPT ![f] =
           OnLoaderError([loads[f] EXCEPT !.outcome = "failure"], onError)]
    /\ UNCHANGED <<frameVars, debounceVars, sceneVars, tweenVars, rigVars>>

LoaderIdle ==
    loads = [f \in LoadFunctions |->
                [outcome |-> "idle", promise |-> "none", calls |-> <<>>]]

NextLoader ==
    \/ \E f \in LoadFunctions : LoadModel(f)
    \/ \E f \in LoadFunctions, onLoad, onError \in CallbackBehaviours,
          rerouted \in BOOLEAN : LoaderSucceeds(f, onLoad, rerouted, onError)
    \/ \E f \in LoadFunctions, onError \in CallbackBehaviours : LoaderFails(f, onError)

(***************************************************************************)
(* animateObjectWithKeyframes and followPath                               *)
(***************************************************************************)

\* The longest array of keyframes and the longest path tried.
MaxKeyframes == 4
MaxPath == 4

\* The duration arguments tried are the multiples of 60 ms up to this many; 60
\* is divided exactly by every length up to 6.
MaxDurationUnits == 3

Durations == {60 * u : u \in 1..MaxDurationUnits}

RECURSIVE SumSeq(_)
SumSeq(q) == IF Len(q) = 0 THEN 0 ELSE Head(q) + SumSeq(Tail(q))

\* tween.chain(t): the list of tweens started when the tween completes is
\* replaced by the one given.
Chain(list, t) == <<t>>

\* The tween that tweenChain names when the keyframe at index is handled:
\* tweenChain is assigned at the first keyframe only.
ChainTarget(index) == 1

\* keyframes.forEach, from the keyframe at index on (the first has index 1 here):
\* every tween after the first is chained to the tween tweenChain names.
RECURSIVE ForEachKeyframe(_, _, _)
ForEachKeyframe(chained, index, n) ==
    IF index > n THEN chained
    ELSE ForEachKeyframe(
             IF index = 1 THEN chained
             ELSE [chained EXCEPT ![ChainTarget(index)] = Chain(@, index)],
             index + 1, n)

\* animateObjectWithKeyframes(object, keyframes, duration, onComplete) with n
\* keyframes: the tweens are made and chained, and tweenChain.start() starts the
\* first.
animateObjectWithKeyframes(n, d, oc) ==
    /\ kfCount = 0
    /\ kfCount' = n
    /\ kfDuration' = d
    /\ kfOnComplete' = oc
    /\ kfChained' = ForEachKeyframe([i \in 1..n |-> <<>>], 1, n)
    /\ kfActive' = {1}
    /\ UNCHANGED <<kfPlayed, kfElapsed, kfCompleteCalls>>
    /\ UNCHANGED <<frameVars, debounceVars, sceneVars, loaderVars, pathVars, rigVars>>

\* TWEEN.update finds the tween t complete, after duration / keyframes.length ms:
\* the tweens chained to it start, and the last tween of the array calls
\* onComplete.
KeyframeTweenCompletes(t) ==
    /\ t \in kfActive
    /\ kfActive' = (kfActive \ {t}) \cup Range(kfChained[t])
    /\ kfPlayed' = Append(kfPlayed, t)
    /\ kfElapsed' = kfElapsed + (kfDuration \div kfCount)
    /\ kfCompleteCalls' =
           IF t = kfCount /\ kfOnComplete THEN kfCompleteCalls + 1 ELSE kfCompleteCalls
    /\ UNCHANGED <<kfCount, kfDuration, kfOnComplete, kfChained>>
    /\ UNCHANGED <<frameVars, debounceVars, sceneVars, loaderVars, pathVars, rigVars>>

KeyframesIdle ==
    /\ kfCount = 0
    /\ kfDuration = 0
    /\ kfOnComplete = FALSE
    /\ kfChained = <<>>
    /\ kfActive = {}
    /\ kfPlayed = <<>>
    /\ kfElapsed = 0
    /\ kfCompleteCalls = 0

\* Mutant: the test lets the last index through.
HasNextInclusive(index, length) == index < length

\* if (currentIndex < path.length - 1)
HasNext(index, length) == index < length - 1

\* function animate() of followPath, with currentIndex at index: when there is a
\* next point, path[nextIndex] is read and a tween to it is started, which lasts
\* duration / path.length.
PathAnimate(index, length, d, active) ==
    IF HasNext(index, length)
    THEN /\ fpReads' = Append(fpReads, index + 1)
         /\ fpDurations' = Append(fpDurations, d \div length)
         /\ fpActive' = active \cup {index + 1}
    ELSE /\ fpActive' = active
         /\ UNCHANGED <<fpReads, fpDurations>>

\* followPath(object, path, duration): currentIndex is 0 and animate() is called.
followPath(length, d) ==
    /\ ~fpCalled
    /\ fpCalled' = TRUE
    /\ fpLength' = length
    /\ fpDuration' = d
    /\ currentIndex' = 0
    /\ PathAnimate(0, length, d, fpActive)
    /\ UNCHANGED fpVisited
    /\ UNCHANGED <<frameVars, debounceVars, sceneVars, loaderVars, keyframeVars, rigVars>>

\* TWEEN.update finds the tween to path[t] complete: the object is there, and the
\* onComplete callback sets currentIndex and calls animate().
PathTweenCompletes(t) ==
    /\ t \in fpActive
    /\ fpVisited' = Append(fpVisited, t)
    /\ currentIndex' = t
    /\ PathAnimate(t, fpLength, fpDuration, fpActive \ {t})
    /\ UNCHANGED <<fpCalled, fpLength, fpDuration>>
    /\ UNCHANGED <<frameVars, debounceVars, sceneVars, loaderVars, keyframeVars, rigVars>>

PathIdle ==
    /\ fpCalled = FALSE
    /\ fpLength = 0
    /\ fpDuration = 0
    /\ currentIndex = 0
    /\ fpActive = {}
    /\ fpReads = <<>>
    /\ fpDurations = <<>>
    /\ fpVisited = <<>>

TweenIdle == KeyframesIdle /\ PathIdle

NextTween ==
    \/ \E n \in 1..MaxKeyframes, d \in Durations, oc \in BOOLEAN :
          animateObjectWithKeyframes(n, d, oc)
    \/ \E t \in 1..MaxKeyframes : KeyframeTweenCompletes(t)
    \/ \E length \in 0..MaxPath, d \in Durations : followPath(length, d)
    \/ \E t \in 1..(MaxPath + 1) : PathTweenCompletes(t)

(***************************************************************************)
(* initCameraRig                                                           *)
(***************************************************************************)

\* How many cameras of each type there are to build a rig from.
NumCameras == 2

\* How many switch calls are made on a rig.
MaxSwitches == 4

PerspectiveCameras == [type : {"perspective"}, id : 1..NumCameras]
OrthographicCameras == [type : {"orthographic"}, id : 1..NumCameras]

SwitchFunctions == {"switchToPerspective", "switchToOrthographic"}

\* Mutant: a switch goes to the other camera, whichever function is called.
CameraToggled(fn, current, p, o) == IF current = p THEN o ELSE p

\* The camera a switch function assigns to currentCamera.
CameraAfter(fn, current, p, o) == IF fn = "switchToPerspective" THEN p ELSE o

\* initCameraRig(perspectiveCamera, orthographicCamera)
initCameraRig(p, o) ==
    /\ ~rigCreated
    /\ rigCreated' = TRUE
    /\ perspectiveCamera' = p
    /\ orthographicCamera' = o
    /\ currentCamera' = p
    /\ UNCHANGED switches
    /\ UNCHANGED <<frameVars, debounceVars, sceneVars, loaderVars, tweenVars>>

\* rig.switchToPerspective() or rig.switchToOrthographic()
Switch(fn) ==
    /\ rigCreated
    /\ Len(switches) < MaxSwitches
    /\ currentCamera' =
           CameraAfter(fn, currentCamera, perspectiveCamera, orthographicCamera)
    /\ switches' = Append(switches, fn)
    /\ UNCHANGED <<rigCreated, perspectiveCamera, orthographicCamera>>
    /\ UNCHANGED <<frameVars, debounceVars, sceneVars, loaderVars, tweenVars>>

RigIdle ==
    /\ rigCreated = FALSE
    /\ perspectiveCamera = [type |-> "perspective", id |-> 1]
    /\ orthographicCamera = [type |-> "orthographic", id |-> 1]
    /\ currentCamera = [type |-> "perspective", id |-> 1]
    /\ switches = <<>>

NextRig ==
    \/ \E p \in PerspectiveCameras, o \in OrthographicCameras : initCameraRig(p, o)
    \/ \E fn \in SwitchFunctions : Switch(fn)

(***************************************************************************)
(* Specifications                                                          *)
(***************************************************************************)

UtilIdle == DebounceIdle /\ SceneIdle /\ LoaderIdle /\ TweenIdle /\ RigIdle

LimiterIdle == InitLimiter

Init ==
    /\ InitLoops
    /\ LimiterIdle
    /\ ScalerIdle
    /\ CullerIdle
    /\ UtilIdle

Next ==
    \/ \E l \in Loops, o \in Outcomes : StartLoop(l, o)
    \/ BeginFrame
    \/ \E o \in Outcomes, accept \in BOOLEAN : RunCallback(o, accept)

Spec == Init /\ [][Next]_vars

InitOfLimiter ==
    /\ InitLoops
    /\ InitLimiter
    /\ ScalerIdle
    /\ CullerIdle
    /\ UtilIdle

SpecLimiter == InitOfLimiter /\ [][NextLimiter]_vars

InitOfLimiterAnyFps == InitOfLimiter

SpecLimiterAnyFps == InitOfLimiterAnyFps /\ [][NextLimiterAnyFps]_vars

InitOfScaler ==
    /\ InitLoops
    /\ LimiterIdle
    /\ InitScaler
    /\ CullerIdle
    /\ UtilIdle

SpecScaler == InitOfScaler /\ [][NextScaler]_vars

InitOfCuller ==
    /\ InitLoops
    /\ LimiterIdle
    /\ ScalerIdle
    /\ InitCuller
    /\ UtilIdle

SpecCuller == InitOfCuller /\ [][NextCuller]_vars

InitOfDebounce ==
    /\ InitLoops
    /\ LimiterIdle
    /\ ScalerIdle
    /\ CullerIdle
    /\ UtilIdle

SpecDebounce == InitOfDebounce /\ [][NextDebounce]_vars

InitOfScene == InitOfDebounce

SpecScene == InitOfScene /\ [][NextScene]_vars

InitOfLoader == InitOfDebounce

SpecLoader == InitOfLoader /\ [][NextLoader]_vars

InitOfRig == InitOfDebounce

SpecRig == InitOfRig /\ [][NextRig]_vars

InitOfTween == InitOfDebounce

SpecTween == InitOfTween /\ [][NextTween]_vars

\* A frame has run all of its callbacks.
FrameDone == running = <<>>

(***************************************************************************)
(* Properties of limitFrameRate                                            *)
(***************************************************************************)

TickTimes == [i \in DOMAIN ticks |-> ticks[i].t]
TickRan == [i \in DOMAIN ticks |-> ticks[i].ran]

\* The run of the specification's example: an interval of 16 ms, ticks at 0, 10, 20.
ExampleTicks == fpsInterval = 16 /\ TickTimes = <<0, 10, 20>>

\* C1, as the specification states it: renderFunction is invoked at a tick if and
\* only if time - lastTime >= fpsInterval, and with an interval of 16 ms and ticks
\* at 0, 10 and 20 ms it runs at 0 and at 20 and not at 10.
C1_AcceptsFromInterval ==
    /\ \A i \in DOMAIN ticks : ticks[i].ran <=> ticks[i].delta >= fpsInterval
    /\ ExampleTicks => TickRan = <<TRUE, FALSE, TRUE>>

\* C1, amended: renderFunction is invoked at a tick if and only if
\* time - lastTime > fpsInterval (a delta equal to the interval is skipped), and
\* with an interval of 16 ms and ticks at 0, 10 and 20 ms it runs at 20 only: the
\* first tick is loop(0) with lastTime 0, whose delta is 0.
C1_AcceptsAboveInterval ==
    /\ \A i \in DOMAIN ticks : ticks[i].ran <=> ticks[i].delta > fpsInterval
    /\ ExampleTicks => TickRan = <<FALSE, FALSE, TRUE>>

\* The example has run: renderFunction was called at 20 only, and lastTime is 16.
C1_Witness == ExampleTicks /\ TickRan = <<FALSE, FALSE, TRUE>> /\ lastTime = 16

\* C6: on every accepted tick lastTime becomes time - ((time - lastTime) mod
\* fpsInterval) before renderFunction runs, which therefore sees the new value; on
\* every skipped tick lastTime is left unchanged and renderFunction is not called.
C6_LastTimeUpdate ==
    [][Len(ticks') = Len(ticks) + 1 =>
        LET e == ticks'[Len(ticks')] IN
        IF e.ran
        THEN /\ lastTime' = e.t - ((e.t - lastTime) % fpsInterval')
             /\ e.seen = <<lastTime'>>
        ELSE /\ lastTime' = lastTime
             /\ e.seen = <<>>]_vars

\* An accepted tick whose remainder was not 0, followed by a skipped tick.
C6_Witness ==
    \E i, j \in DOMAIN ticks :
        /\ i < j
        /\ ticks[i].ran
        /\ ticks[i].seen = <<lastTime>>
        /\ lastTime # ticks[i].t
        /\ ~ticks[j].ran

\* C7: with tick timestamps that never decrease, the first being loop(0), lastTime
\* never decreases from one tick to the next.
C7_LastTimeNeverDecreases == [][lastTime' >= lastTime]_vars

\* lastTime has risen twice.
C7_Witness ==
    \E i, j \in DOMAIN ticks : i < j /\ ticks[i].ran /\ ticks[j].ran /\ lastTime > 0

\* The interval is one the specification accepts: positive and finite.
ValidInterval(interval) == interval > 0 /\ interval # Infinity

\* C15, as the specification states it: limitFrameRate called with an fps that
\* gives a non-positive or infinite interval fails, starts no loop and never
\* invokes renderFunction.
C15_InvalidFpsRejected ==
    (limStarted /\ ~ValidInterval(fpsInterval)) => (limFailed /\ ticks = <<>>)

\* C15, amended: limitFrameRate tests nothing and never fails. With a negative
\* fps the interval is negative, the loop starts and renderFunction is invoked at
\* every tick, loop(0) included; with an fps of 0 the interval is Infinity, the
\* loop starts and renderFunction is never invoked.
C15_InvalidFpsAccepted ==
    (limStarted /\ ~ValidInterval(fpsInterval)) =>
        /\ ~limFailed
        /\ ticks # <<>>
        /\ fpsInterval < 0 => \A i \in DOMAIN ticks : ticks[i].ran
        /\ fpsInterval = Infinity => \A i \in DOMAIN ticks : ~ticks[i].ran

\* A limiter started with a negative fps has rendered at loop(0) and at two
\* later ticks.
C15_Witness ==
    /\ limStarted
    /\ fpsInterval < 0
    /\ Len(ticks) >= 3
    /\ \A i \in DOMAIN ticks : ticks[i].ran

(***************************************************************************)
(* Properties of the frame loops                                           *)
(***************************************************************************)

\* C3: in the loops of optimizeRenderLoop, limitFrameRate, dynamicResolutionScaling
\* and manageResourceIntensiveObjects, a per-frame function that threw in some tick
\* does not keep the loop from running in any later tick: in every frame that has
\* run its callbacks, the body of such a loop has run (for the limiter, up to its
\* test of the timestamp).
C3_ThrowDoesNotStopLoop ==
    \A l \in RafFirstLoops : (l \in threwBefore /\ FrameDone) => out[l] # NoRun

\* After a throw in an earlier tick the per-frame function has been invoked again.
C3_Witness ==
    \E l \in RafFirstLoops : l \in threwBefore /\ FrameDone /\ out[l] \in Outcomes

\* C4, as the specification states it: once a stop was asked for during tick N,
\* the per-frame function is not invoked at tick N+1 or later.
C4_StopPreventsLaterInvocation ==
    \A l \in Loops : l \in stopBefore => out[l] \notin Outcomes

\* C4, amended: no loop can be stopped. A stop asked for during a tick has no
\* effect: the frame in flight completes and its successor is registered, and the
\* loop runs again in every later frame (for animate and renderWithComposer, which
\* register the successor last, as long as no tick has thrown).
C4_StopHasNoEffect ==
    /\ \A l \in Loops : out[l] = "stop" => l \in Range(rafQueue)
    /\ \A l \in Loops :
          (l \in stopBefore /\ FrameDone /\ (l \in RafLastLoops => l \notin threwBefore))
              => out[l] # NoRun

\* After a stop request in an earlier tick the per-frame function has been invoked.
C4_Witness ==
    \E l \in Loops : l \in stopBefore /\ FrameDone /\ out[l] \in Outcomes

C14_ErrorCaughtByLoop ==
    \A l \in Loops : out[l] = "throw" => errors[l] = "caught"

\* C14, amended: no loop catches an error thrown by its per-frame function: the
\* error leaves the tick callback uncaught, the statements of that callback after
\* the throwing call are skipped (so animate and renderWithComposer register no
\* successor), and the other callbacks of the frame still run.
C14_ErrorLeavesCallback ==
    /\ \A l \in Loops : out[l] = "throw" => errors[l] = "uncaught"
    /\ \A l \in RafLastLoops : out[l] = "throw" => l \notin Range(rafQueue)
    /\ ranOrder \o running = frame

\* A frame in which the first callback threw and a later one has run its work.
C14_Witness ==
    /\ Len(ranOrder) >= 2
    /\ errors[ranOrder[1]] = "uncaught"
    /\ out[ranOrder[2]] = "ok"

PosInStartOrder(l) == CHOOSE i \in DOMAIN startOrder : startOrder[i] = l

Pending(q, l) == Cardinality({i \in DOMAIN q : q[i] = l})

\* C26: for each loop started by one call of its start function whose per-frame
\* work has not thrown, exactly one callback is pending: between two frames one
\* is registered for the next frame, and within a frame the loop has either its
\* callback of this frame still to run or the successor registered, never both
\* and never neither.
C26_OneCallbackPending ==
    \A l \in started :
        (l \notin threwBefore /\ out[l] # "throw") =>
            Pending(rafQueue, l) + Pending(running, l) = 1

\* Two loops, one that registers first and one that registers last, have run in
\* two frames without a throw and each has one callback registered.
C26_Witness ==
    /\ FrameDone
    /\ stopBefore # {}
    /\ threwBefore = {}
    /\ \E l \in RafFirstLoops, k \in RafLastLoops :
          /\ out[l] \in {"ok", "stop"} /\ Pending(rafQueue, l) = 1
          /\ out[k] \in {"ok", "stop"} /\ Pending(rafQueue, k) = 1

(***************************************************************************)
(* Properties of initRenderer and dynamicResolutionScaling                 *)
(***************************************************************************)

FpsLog == [i \in DOMAIN samples |-> samples[i].fps]
AfterLog == [i \in DOMAIN samples |-> samples[i].after]

\* The run of the specification's example: a start at 1.0, fps 20, 20, 60, 60.
ExampleSamples == devicePixelRatio = 10 /\ FpsLog = <<20, 20, 60, 60>>

\* C2: the pixel ratio of the renderer, set by initRenderer and then by
\* dynamicResolutionScaling, is within [0.5, 2] in every state.
C2_PixelRatioWithinBounds ==
    rendererCreated => (pixelRatio >= MinPixelRatio /\ pixelRatio <= MaxPixelRatio)

\* C8, as the specification states it: a tick with fps < 30 lowers the current
\* scale factor by one step clamped to the minimum, a tick with fps > 50 raises it
\* by one step clamped to the maximum, and from 1.0 the fps samples 20, 20, 60, 60
\* give 0.5, 0.5, 1.0, 1.5.
C8_StepsAccumulate ==
    /\ \A i \in DOMAIN samples :
          /\ samples[i].fps < LowFps =>
                samples[i].after = Max(MinPixelRatio, samples[i].before - ScaleStep)
          /\ samples[i].fps > HighFps =>
                samples[i].after = Min(MaxPixelRatio, samples[i].before + ScaleStep)
    /\ ExampleSamples => AfterLog = <<5, 5, 10, 15>>

\* C8, amended: a tick with fps < 30 sets the pixel ratio to the base pixel ratio
\* minus one step, clamped to the minimum, and a tick with fps > 50 sets it to the
\* base plus one step, clamped to the maximum, the base being the device pixel
\* ratio read at the start; the changes do not accumulate, and from 1.0 the fps
\* samples 20, 20, 60, 60 give 0.5, 0.5, 1.5, 1.5.
C8_StepsFromBase ==
    /\ \A i \in DOMAIN samples :
          /\ samples[i].fps < LowFps =>
                /\ samples[i].wrote
                /\ samples[i].after = Max(MinPixelRatio, basePixelRatio - ScaleStep)
          /\ samples[i].fps > HighFps =>
                /\ samples[i].wrote
                /\ samples[i].after = Min(MaxPixelRatio, basePixelRatio + ScaleStep)
    /\ ExampleSamples => AfterLog = <<5, 5, 15, 15>>

\* The example has run, from a pixel ratio of 1.0.
C8_Witness ==
    /\ ExampleSamples
    /\ samples[1].before = 10
    /\ AfterLog = <<5, 5, 15, 15>>

\* C9: a tick whose fps sample is within 30..50 makes no setPixelRatio call and
\* leaves the pixel ratio as it was.
C9_BandLeavesPixelRatio ==
    \A i \in DOMAIN samples :
        (samples[i].fps >= LowFps /\ samples[i].fps <= HighFps) =>
            (~samples[i].wrote /\ samples[i].after = samples[i].before)

\* Ticks at both thresholds that wrote nothing, after a tick that wrote.
C9_Witness ==
    \E i, j, k \in DOMAIN samples :
        /\ i < j /\ i < k
        /\ samples[i].wrote /\ samples[i].after # samples[i].before
        /\ samples[j].fps = LowFps /\ ~samples[j].wrote
        /\ samples[k].fps = HighFps /\ ~samples[k].wrote

\* C10: setPixelRatio is called only on ticks where the new value differs from the
\* value currently applied.
C10_WritesOnlyChanges ==
    \A i \in DOMAIN samples : samples[i].wrote => samples[i].after # samples[i].before

(***************************************************************************)
(* Properties of manageResourceIntensiveObjects                            *)
(***************************************************************************)

\* C5: after every update, every object of the managed list is visible exactly
\* when the frustum computed from the camera in that update intersects it,
\* whatever its flag was before; the managed list and the children of the scene
\* are never changed.
C5_VisibleIffIntersects ==
    /\ [](fresh =>
            /\ frustum = FrustumOf(cameraPos)
            /\ \A i \in DOMAIN objects :
                  visible[objects[i]] <=> IntersectsObject(frustum, objects[i]))
    /\ [][/\ objects # <<>> => objects' = objects
          /\ sceneChildren' = sceneChildren]_vars

\* An update has shown one object of the list and hidden another.
C5_Witness ==
    /\ fresh
    /\ \E i, j \in DOMAIN objects :
          /\ visible[objects[i]] /\ IntersectsObject(frustum, objects[i])
          /\ ~visible[objects[j]] /\ ~IntersectsObject(frustum, objects[j])

\* C11: an update changes nothing on a managed object except its visible flag: its
\* geometry, its material, its position and its parent are the same after the
\* update as before it.
C11_UpdateWritesVisibleOnly ==
    [][fresh' =>
        /\ geometry' = geometry
        /\ material' = material
        /\ objPos' = objPos
        /\ sceneChildren' = sceneChildren]_vars

\* An update has hidden an object of the list, which still has its geometry, its
\* material and its parent.
C11_Witness ==
    /\ fresh
    /\ \E i \in DOMAIN objects :
          /\ ~visible[objects[i]]
          /\ geometry[objects[i]] = "attached"
          /\ material[objects[i]] = "attached"
          /\ objects[i] \in sceneChildren

\* C12: culling is idempotent: when neither the camera nor an object has changed
\* between two consecutive updates, the second update leaves every visible flag
\* as the first one set it.
C12_CullingIdempotent == [][(fresh /\ fresh') => visible' = visible]_vars

\* A second update in a row has run, with one object shown and another hidden.
C12_Witness ==
    /\ again
    /\ \E i, j \in DOMAIN objects : visible[objects[i]] /\ ~visible[objects[j]]

(***************************************************************************)
(* Properties of debounceWindowResize                                      *)
(***************************************************************************)

\* C18, as the specification states it: callback is called only when exactly
\* delay ms have passed since the latest resize event, every burst of resize
\* events is followed by exactly one call, and at no time is more than one timer
\* pending.
C18_CalledExactlyAfterDelay ==
    /\ \A c \in Range(lastCall) : c.since = delay
    /\ ~missedBurst
    /\ callsSince <= 1
    /\ Cardinality(timers) <= 1

\* C18, amended: callback is called only when at least delay ms have passed since
\* the latest resize event; after a resize event either one timer is pending and
\* callback has not been called since, or none is pending and callback has been
\* called exactly once since; at no time is more than one timer pending.
C18_CalledAfterDelay ==
    /\ \A c \in Range(lastCall) : c.since >= delay
    /\ Cardinality(timers) <= 1
    /\ lastResize # <<>> =>
          \/ Cardinality(timers) = 1 /\ callsSince = 0
          \/ timers = {} /\ callsSince = 1

\* A burst ended while its timer was overdue and got no call; after the event
\* that cancelled the timer callback has been called once, later than delay ms
\* after that event.
C18_Witness ==
    /\ missedBurst
    /\ timers = {}
    /\ callsSince = 1
    /\ \E c \in Range(lastCall) : c.since > delay

(***************************************************************************)
(* Properties of clearScene                                                *)
(***************************************************************************)

\* C19: clearScene terminates for every scene and leaves the scene with no
\* children, whatever kinds of objects it held.
C19_ClearLeavesNoChildren ==
    sceneCall.function = "clearScene" => children = <<>>

\* C24: initScene sets the background to options.backgroundColor for every hex
\* colour given, 0x000000 included; otherwise it uses options.backgroundTexture;
\* and an options.environmentMap that is given is set as scene.environment.
C24_OptionsApplied ==
    sceneCreated =>
        /\ options.backgroundColor # <<>> =>
              background = [kind |-> "color", color |-> options.backgroundColor[1]]
        /\ (options.backgroundColor = <<>> /\ options.backgroundTexture # <<>>) =>
              background.kind = "texture"
        /\ options.environmentMap # <<>> => environment = "cubeTexture"

(***************************************************************************)
(* Properties of the model loaders                                         *)
(***************************************************************************)

\* C20: the promise settles exactly once for every outcome of the loader and
\* every behaviour of the callbacks: on success onLoad is called and the promise
\* is resolved, on failure onError is called and the promise is rejected; it is
\* never left pending.
C20_PromiseSettles ==
    \A f \in LoadFunctions :
        /\ loads[f].outcome = "success" =>
              (loads[f].calls = <<"onLoad">> /\ loads[f].promise = "resolved")
        /\ loads[f].outcome = "failure" =>
              (loads[f].calls = <<"onError">> /\ loads[f].promise = "rejected")

(***************************************************************************)
(* Properties of animateObjectWithKeyframes and followPath                 *)
(***************************************************************************)

KeyframesDone == kfCount > 0 /\ kfActive = {}
PathDone == fpCalled /\ fpActive = {}

\* C21: every keyframe of the array is played, in array order, each exactly once,
\* for every array length from 1 on, and onComplete is called once, after the
\* last keyframe has finished.
C21_AllKeyframesPlayed ==
    /\ \A i \in DOMAIN kfPlayed : kfPlayed[i] = i
    /\ KeyframesDone =>
          /\ kfPlayed = [i \in 1..kfCount |-> i]
          /\ kfOnComplete => kfCompleteCalls = 1

\* C22: followPath moves the object to path[1], ..., path[length - 1] in index
\* order, starts exactly path.length - 1 tweens with never more than one active,
\* never reads a path index from path.length on, and starts no further tween once
\* the last point is reached; for a path of length 0 or 1 it starts no tween.
C22_PathFollowedInOrder ==
    /\ \A i \in DOMAIN fpReads : fpReads[i] = i /\ fpReads[i] < fpLength
    /\ \A i \in DOMAIN fpVisited : fpVisited[i] = i
    /\ Cardinality(fpActive) <= 1
    /\ Len(fpDurations) = Len(fpVisited) + Cardinality(fpActive)
    /\ fpLength <= 1 => fpDurations = <<>>
    /\ (PathDone /\ fpLength >= 2) =>
          /\ Len(fpDurations) = fpLength - 1
          /\ fpVisited = [i \in 1..(fpLength - 1) |-> i]

\* A path of four points has been followed to its end.
C22_Witness ==
    /\ PathDone
    /\ fpLength = 4
    /\ fpVisited = <<1, 2, 3>>
    /\ currentIndex = 3

\* C23: the durations of the tweens that followPath starts add up to the duration
\* argument, for every path of at least two points.
C23_DurationsAddUp ==
    (PathDone /\ fpLength >= 2) => SumSeq(fpDurations) = fpDuration

(***************************************************************************)
(* Properties of initCameraRig                                             *)
(***************************************************************************)

\* C25: getCurrentCamera() returns the perspective camera before any switch and
\* the camera named by the last switch call after any sequence of them, so it is
\* always one of the two cameras of the rig; a switch called twice in a row
\* changes nothing the second time; and no switch changes the perspectiveCamera
\* and orthographicCamera fields of the rig.
C25_CurrentCameraIsLastSwitched ==
    /\ [](rigCreated =>
            /\ currentCamera \in {perspectiveCamera, orthographicCamera}
            /\ currentCamera =
                  IF switches = <<>> THEN perspectiveCamera
                  ELSE IF switches[Len(switches)] = "switchToPerspective"
                       THEN perspectiveCamera
                       ELSE orthographicCamera)
    /\ [][rigCreated =>
            /\ perspectiveCamera' = perspectiveCamera
            /\ orthographicCamera' = orthographicCamera
            /\ (/\ switches # <<>>
                /\ Len(switches') = Len(switches) + 1
                /\ switches'[Len(switches')] = switches[Len(switches)])
                  => currentCamera' = currentCamera]_vars

\* A rig of the second cameras has been switched to orthographic twice and back
\* to perspective twice.
C25_Witness ==
    /\ rigCreated
    /\ perspectiveCamera.id = 2
    /\ orthographicCamera.id = 2
    /\ switches = <<"switchToOrthographic", "switchToOrthographic",
                    "switchToPerspective", "switchToPerspective">>
    /\ currentCamera = perspectiveCamera

====
